---- MODULE Spec2Model ----
(***************************************************************************)
(* The gazette structuring engine of dz_scrap: LegalParser (parser.py and  *)
(* the regular expressions of patterns.py), DocumentClassifier and         *)
(* DocumentChunker, driven as tools/run_parser.py and                      *)
(* tools/prepare_for_rag.py drive them.                                    *)
(*                                                                         *)
(* A Python string is modelled as a sequence of tokens.  A token stands    *)
(* for the literal run of characters it is named by; tokens are written in *)
(* ASCII, so "Decret" stands for the accented word of the source, "n(o)"   *)
(* for the numero sign "n" + degree sign, "EMDASH" for U+2014 and           *)
(* "Lo(dotless i)" for "Lo" followed by the dotless i, U+0131.  White      *)
(* space is always a token of its own (" " or "\n"), except inside the few *)
(* phrase tokens ("Fait a Alger", ...), which stand for the phrase written *)
(* with single spaces.  Offsets are 0-based token offsets, as Python's are *)
(* character offsets.  Every regular expression is translated element by   *)
(* element, with the priority order of Python's backtracking matcher:      *)
(* leftmost start, a lazy quantifier shortest first, a greedy one longest  *)
(* first.                                                                  *)
(***************************************************************************)
EXTENDS Integers, Sequences, FiniteSets, TLC

--------------------------------------------------------------------------
(* Tokens and character classes *)

Space == {" ", "\n"}

Digits == {"1", "2", "3", "5", "12", "24", "100", "2024"}

DigitLed == {"1er"}

Letters ==
  {"Decret", "DECRET", "decret", "Loi", "loi", "emploi", "Arrete", "arrete",
   "Decision", "decision", "circulaire", "ordonnance", "Circulaire",
   "executif", "presidentiel", "organique", "rectificative", "du", "janvier",
   "mars", "portant", "Portant", "fixant", "modifiant", "mettant", "relative",
   "au", "fin", "nomination", "Nomination", "denomination", "creation", "aux",
   "fonctions", "Art", "Article", "Il", "est", "cree", "Le", "present",
   "texte", "le", "er", "SOMMAIRE", "Sommaire", "NEW", "PAGE", "avis",
   "etablissement", "interministeriel", "Lo(dotless i)"}

Words == Digits \cup DigitLed \cup Letters

Phrases ==
  {"Le President de la Republique,", "Le Premier ministre,",
   "Vu la Constitution", "Fait a Alger", "Le ministre", "Par ces motifs",
   "9 Joumada Ethania 1446",
   "JOURNAL OFFICIEL DE LA REPUBLIQUE ALGERIENNE N(o)"}

Punct ==
  {".", "-", "---", ",", ":", "EMDASH", "n(o)", "N/A", "(suite)", "...", "d'un"}

Token == Space \cup Words \cup Phrases \cup Punct

\* [\s\w\-\.\/] with the accented letters: the tokens made of such characters only
TypeClass ==
  Space \cup Words \cup
  {".", "-", "---", "...", "N/A", "Fait a Alger", "Le ministre",
   "Par ces motifs", "9 Joumada Ethania 1446"}

\* [\d\s\-\.\/]
NumberClass == Space \cup Digits \cup {".", "-", "---", "..."}

\* the characters of lstrip('.- ')
StripChars == {".", "-", "---", "...", " "}

IsSpace(c) == c \in Space

IsWord(c) == c \in Words

StartsWithDigit(c) == c \in Digits \cup DigitLed \cup {"9 Joumada Ethania 1446"}

\* str.lower()
Lower(c) ==
  CASE c \in {"Decret", "DECRET"} -> "decret"
    [] c = "Loi" -> "loi"
    [] c = "Arrete" -> "arrete"
    [] c = "Decision" -> "decision"
    [] c = "Circulaire" -> "circulaire"
    [] c = "Portant" -> "portant"
    [] c = "Nomination" -> "nomination"
    [] c = "Article" -> "article"
    [] c = "Art" -> "art"
    [] c = "Il" -> "il"
    [] c = "Le" -> "le"
    [] c \in {"SOMMAIRE", "Sommaire"} -> "sommaire"
    [] c = "NEW" -> "new"
    [] c = "PAGE" -> "page"
    [] c = "N/A" -> "n/a"
    [] c = "Le President de la Republique," -> "le president de la republique,"
    [] c = "Le Premier ministre," -> "le premier ministre,"
    [] c = "Vu la Constitution" -> "vu la constitution"
    [] c = "Fait a Alger" -> "fait a alger"
    [] c = "Le ministre" -> "le ministre"
    [] c = "Par ces motifs" -> "par ces motifs"
    [] OTHER -> c

\* the folding of re.IGNORECASE: a character matches a letter of the pattern
\* when one is the lower or the upper case of the other, so the dotless i,
\* whose upper case is "I", matches "i"; str.lower() leaves it as it is
Fold(c) == IF c = "Lo(dotless i)" THEN "loi" ELSE Lower(c)

\* the words a longer token contains: <<needle, token>>
Embedded ==
  {<<"loi", "emploi">>, <<"nomination", "denomination">>}

\* needle in token, for one-token needles
Occurs(needle, c) == c = needle \/ <<needle, c>> \in Embedded

--------------------------------------------------------------------------
(* Sequences as Python strings and lists *)

Min(S) == CHOOSE x \in S : \A y \in S : x <= y

Max(S) == CHOOSE x \in S : \A y \in S : x >= y

\* t[p], and a token that matches nothing past either end
Tok(t, p) == IF p >= 0 /\ p < Len(t) THEN t[p + 1] ELSE "<end>"

\* t[a:b], for 0 <= a: an end past the last token is the end of t
Slice(t, a, b) == SubSeq(t, a + 1, IF b > Len(t) THEN Len(t) ELSE b)

\* the length of the run of white space at offset p
RECURSIVE SpaceRun(_, _)
SpaceRun(t, p) == IF IsSpace(Tok(t, p)) THEN 1 + SpaceRun(t, p + 1) ELSE 0

\* ^ under re.MULTILINE
LineStart(t, p) == p = 0 \/ Tok(t, p - 1) = "\n"

RECURSIVE Concat(_)
Concat(ss) == IF ss = <<>> THEN <<>> ELSE Head(ss) \o Concat(Tail(ss))

\* needle in t, for a needle of several tokens
ContainsSeq(t, needle) ==
  \E p \in 0..(Len(t) - Len(needle)) : Slice(t, p, p + Len(needle)) = needle

\* a local variable: F applied to the value of e, e being evaluated once
Let(e, F(_)) == CHOOSE v \in {F(x) : x \in {e}} : TRUE

\* the offsets 0 .. Len(t)-1 in order
Offsets(t) == [k \in 1..Len(t) |-> k - 1]

\* t without the tokens at the offsets in `removed`
Without(t, removed) ==
  LET kept == SelectSeq(Offsets(t), LAMBDA p : p \notin removed)
  IN [k \in 1..Len(kept) |-> Tok(t, kept[k])]

--------------------------------------------------------------------------
(* patterns.py *)

NoMatch == [ok |-> FALSE]

StartKeywords == {"decret", "loi", "arrete", "decision"}

\* DOCUMENT_START_PATTERN matches at offset p:
\* ^(?:Decret|Loi|Arrete|Decision)\s under IGNORECASE | MULTILINE
DocumentStartAt(t, p) ==
  /\ LineStart(t, p)
  /\ Fold(Tok(t, p)) \in StartKeywords
  /\ IsSpace(Tok(t, p + 1))

\* the lookahead that bounds the title of DOCUMENT_HEADER_PATTERN, at offset e
HeaderLookahead(t, e) ==
  /\ Tok(t, e) = "\n"
  /\ \E q \in {e + 1 + SpaceRun(t, e + 1)} :
       \/ Fold(Tok(t, q)) \in
            {"le president de la republique,", "le premier ministre,",
             "vu la constitution"}
       \/ /\ Fold(Tok(t, q)) = "article"
          /\ StartsWithDigit(Tok(t, q + 1 + SpaceRun(t, q + 1)))

\* (?:portant|relative\s+au|fixant|modifiant|mettant|portant) at offset v:
\* the number of tokens it takes, 0 when it does not match
HeaderVerbLen(t, v) ==
  IF Fold(Tok(t, v)) \in {"portant", "fixant", "modifiant", "mettant"} THEN 1
  ELSE IF Fold(Tok(t, v)) = "relative"
       THEN Let(SpaceRun(t, v + 1), LAMBDA r :
              IF r >= 1 /\ Fold(Tok(t, v + 1 + r)) = "au" THEN 2 + r ELSE 0)
  ELSE 0

\* \s+(verb)\s+(?P<title>.*?)(?=...) at offset p; LA holds the offsets where
\* the lookahead succeeds
HeaderVerb(t, LA, p) ==
  Let(SpaceRun(t, p), LAMBDA r :
    IF r = 0 THEN NoMatch
    ELSE Let(HeaderVerbLen(t, p + r), LAMBDA vl :
         Let(p + r + vl, LAMBDA w :
         Let({k \in 1..SpaceRun(t, w) : \E e \in LA : e >= w + k}, LAMBDA K :
           IF vl > 0 /\ K # {}
           THEN Let(w + Max(K), LAMBDA ts :
                  [ok |-> TRUE, titleStart |-> ts,
                   end |-> Min({e \in LA : e >= ts})])
           ELSE NoMatch))))

\* \s+du\s+(?P<date>.*?) at offset p, then the verb; VO holds the offsets where
\* HeaderVerb matches
HeaderDate(t, VO, p) ==
  Let(SpaceRun(t, p), LAMBDA r :
    IF r >= 1 /\ Fold(Tok(t, p + r)) = "du"
    THEN Let(p + r + 1, LAMBDA u :
         Let({k \in 1..SpaceRun(t, u) : \E q \in VO : q >= u + k}, LAMBDA K :
           IF K # {}
           THEN Let(u + Max(K), LAMBDA ds :
                  [ok |-> TRUE, dateStart |-> ds,
                   dateEnd |-> Min({q \in VO : q >= ds})])
           ELSE NoMatch))
    ELSE NoMatch)

\* (?P<number>[\d\s\-\.\/]+?) from offset ns: where it may end; DO holds the
\* offsets where HeaderDate matches
HeaderNumberEnds(t, DO, ns) ==
  {m \in DO : m > ns /\ \A i \in ns..(m - 1) : Tok(t, i) \in NumberClass}

\* \s+n(o)\s*(?P<number>...) at offset p, then the date
HeaderNumber(t, DO, p) ==
  Let(SpaceRun(t, p), LAMBDA r :
    IF r >= 1 /\ Fold(Tok(t, p + r)) = "n(o)"
    THEN Let(p + r + 1, LAMBDA u :
         Let({k \in 0..SpaceRun(t, u) : HeaderNumberEnds(t, DO, u + k) # {}},
             LAMBDA K :
           IF K # {}
           THEN Let(u + Max(K), LAMBDA ns :
                  [ok |-> TRUE, numStart |-> ns,
                   numEnd |-> Min(HeaderNumberEnds(t, DO, ns))])
           ELSE NoMatch))
    ELSE NoMatch)

\* (?P<type>(?:Decret|Loi|Arrete|Decision)[\s\w\-\.\/]+?) from offset s: where
\* it may end; NO holds the offsets where HeaderNumber matches
HeaderTypeEnds(t, NO, s) ==
  {m \in NO : m >= s + 2 /\ \A i \in (s + 1)..(m - 1) : Tok(t, i) \in TypeClass}

\* the groups of the match of DOCUMENT_HEADER_PATTERN that starts at offset s
HeaderMatchAt(t, LA, VO, DO, NO, s) ==
  Let(Min(HeaderTypeEnds(t, NO, s)), LAMBDA te :
  Let(HeaderNumber(t, DO, te), LAMBDA nm :
  Let(HeaderDate(t, VO, nm.numEnd), LAMBDA dt :
  Let(HeaderVerb(t, LA, dt.dateEnd), LAMBDA vb :
    [ok |-> TRUE, start |-> s, end |-> vb.end,
     type |-> Slice(t, s, te),
     number |-> Slice(t, nm.numStart, nm.numEnd),
     date |-> Slice(t, dt.dateStart, dt.dateEnd),
     title |-> Slice(t, vb.titleStart, vb.end),
     hasNumber |-> TRUE]))))

\* DOCUMENT_HEADER_PATTERN.search(t): the match, with its groups as offsets
DocumentHeaderSearch(t) ==
  Let({e \in 0..(Len(t) - 1) : HeaderLookahead(t, e)}, LAMBDA LA :
  Let({p \in 0..Len(t) : HeaderVerb(t, LA, p).ok}, LAMBDA VO :
  Let({p \in 0..Len(t) : HeaderDate(t, VO, p).ok}, LAMBDA DO :
  Let({p \in 0..Len(t) : HeaderNumber(t, DO, p).ok}, LAMBDA NO :
  Let({s \in 0..(Len(t) - 1) :
         /\ LineStart(t, s)
         /\ Fold(Tok(t, s)) \in StartKeywords
         /\ HeaderTypeEnds(t, NO, s) # {}}, LAMBDA S :
    IF S = {} THEN NoMatch ELSE HeaderMatchAt(t, LA, VO, DO, NO, Min(S)))))))

\* (?P<type>Decret\s(?:presidentiel|executif)|Arrete) at offset s: its length
IndividualTypeLen(t, s) ==
  IF /\ Fold(Tok(t, s)) = "decret"
     /\ IsSpace(Tok(t, s + 1))
     /\ Fold(Tok(t, s + 2)) \in {"presidentiel", "executif"}
  THEN 3
  ELSE IF Fold(Tok(t, s)) = "arrete" THEN 1
  ELSE 0

\* (?:mettant\sfin|portant\snomination) at offset p
IndividualTitleHead(t, p) ==
  /\ IsSpace(Tok(t, p + 1))
  /\ \/ Fold(Tok(t, p)) = "mettant" /\ Fold(Tok(t, p + 2)) = "fin"
     \/ Fold(Tok(t, p)) = "portant" /\ Fold(Tok(t, p + 2)) = "nomination"

\* (?P<date>.+?)\s+(?P<title>...) from offset ds: where the date may end
IndividualDateEnds(t, ds) ==
  {m \in (ds + 1)..Len(t) :
     /\ \A i \in ds..(m - 1) : Tok(t, i) # "\n"
     /\ SpaceRun(t, m) >= 1
     /\ IndividualTitleHead(t, m + SpaceRun(t, m))}

\* \s+du\s+(?P<date>.+?)\s+(?P<title>...) at offset p
IndividualRest(t, p) ==
  Let(SpaceRun(t, p), LAMBDA r :
    IF r >= 1 /\ Fold(Tok(t, p + r)) = "du"
    THEN Let(p + r + 1, LAMBDA u :
         Let({k \in 1..SpaceRun(t, u) : IndividualDateEnds(t, u + k) # {}},
             LAMBDA K :
           IF K # {}
           THEN Let(u + Max(K), LAMBDA ds :
                Let(Min(IndividualDateEnds(t, ds)), LAMBDA de :
                Let(de + SpaceRun(t, de), LAMBDA ts :
                  [ok |-> TRUE, dateStart |-> ds, dateEnd |-> de,
                   titleStart |-> ts,
                   \* .* is greedy and stops at the end of the line
                   end |-> Min({e \in (ts + 3)..Len(t) :
                                  Tok(t, e) \in {"\n", "<end>"}})])))
           ELSE NoMatch))
    ELSE NoMatch)

\* the groups of the match of INDIVIDUAL_DECISION_PATTERN that starts at offset s
IndividualMatchAt(t, s) ==
  Let(s + IndividualTypeLen(t, s), LAMBDA te :
  Let(IndividualRest(t, te), LAMBDA rs :
    [ok |-> TRUE, start |-> s, end |-> rs.end,
     type |-> Slice(t, s, te),
     number |-> <<>>,
     date |-> Slice(t, rs.dateStart, rs.dateEnd),
     title |-> Slice(t, rs.titleStart, rs.end),
     hasNumber |-> FALSE]))

\* INDIVIDUAL_DECISION_PATTERN.search(t)
IndividualDecisionSearch(t) ==
  Let({s \in 0..(Len(t) - 1) :
         /\ LineStart(t, s)
         /\ IndividualTypeLen(t, s) > 0
         /\ IndividualRest(t, s + IndividualTypeLen(t, s)).ok}, LAMBDA S :
    IF S = {} THEN NoMatch ELSE IndividualMatchAt(t, Min(S)))

\* \n\s*(?:Art|Article)\. at offset e
ArticleMarkerAt(t, e) ==
  /\ Tok(t, e) = "\n"
  /\ \E q \in {e + 1 + SpaceRun(t, e + 1)} :
       /\ Tok(t, q) \in {"Art", "Article"}
       /\ Tok(t, q + 1) = "."

\* the lookahead that bounds the content of ARTICLE_PATTERN, at offset e;
\* $ without re.MULTILINE is the end of the text or a last "\n"
ArticleLookahead(t, e) ==
  \/ ArticleMarkerAt(t, e)
  \/ /\ Tok(t, e) = "\n"
     /\ Tok(t, e + 1 + SpaceRun(t, e + 1)) \in
          {"Fait a Alger", "Le ministre", "Par ces motifs"}
  \/ e = Len(t)
  \/ e = Len(t) - 1 /\ Tok(t, e) = "\n"

\* \s*[EMDASH\-]?\s*(?P<content>.*?)(?=...) at offset ne, the end of the number
\* that starts at offset ns of the match that starts at offset p
ArticleContentAt(t, p, ns, ne) ==
  Let(ne + SpaceRun(t, ne), LAMBDA d :
  Let(IF Tok(t, d) \in {"EMDASH", "-"} THEN d + 1 ELSE d, LAMBDA d2 :
  Let(d2 + SpaceRun(t, d2), LAMBDA cs :
    [ok |-> TRUE, start |-> p, numStart |-> ns, numEnd |-> ne,
     contentStart |-> cs,
     end |-> Min({e \in cs..Len(t) : ArticleLookahead(t, e)})])))

\* ARTICLE_PATTERN matched at offset p
ArticleMatchAt(t, p) ==
  IF ~ArticleMarkerAt(t, p) THEN NoMatch
  ELSE Let(p + 1 + SpaceRun(t, p + 1), LAMBDA q :
       Let(q + 2 + SpaceRun(t, q + 2), LAMBDA ns :
       \* [\w\d]+(?:er)? is greedy: the whole run of word characters
       Let(Min({m \in ns..Len(t) : ~IsWord(Tok(t, m))}), LAMBDA ne :
         IF ne > ns THEN ArticleContentAt(t, p, ns, ne) ELSE NoMatch)))

\* ARTICLE_PATTERN.finditer(t), from offset `from` on
RECURSIVE ArticleFindIter(_, _)
ArticleFindIter(t, from) ==
  Let({p \in from..(Len(t) - 1) : ArticleMatchAt(t, p).ok}, LAMBDA S :
    IF S = {} THEN <<>>
    ELSE Let(ArticleMatchAt(t, Min(S)), LAMBDA m :
           <<m>> \o ArticleFindIter(t, m.end)))

--------------------------------------------------------------------------
(* parser.py: LegalParser *)

\* the sentinel "N/A"
NA == <<"N/A">>

NewPageMarker == <<"---", " ", "NEW", " ", "PAGE", " ", "---">>

\* the matches of re.sub, left to right and not overlapping: the set of the
\* offsets they cover, ends[p + 1] being the end of the match at p, -1 for none
RECURSIVE Covered(_, _)
Covered(ends, from) ==
  Let({p \in from..(Len(ends) - 1) : ends[p + 1] >= 0}, LAMBDA S :
    IF S = {} THEN {}
    ELSE Let(Min(S), LAMBDA p :
           (p..(ends[p + 1] - 1)) \cup Covered(ends, ends[p + 1])))

\* --- NEW PAGE --- at offset p: the end of the match, -1 for none
NewPageEnd(t, p) ==
  IF Slice(t, p, p + Len(NewPageMarker)) = NewPageMarker
  THEN p + Len(NewPageMarker) ELSE -1

\* re.sub(r'--- NEW PAGE ---', '', text)
SubNewPage(t) ==
  Let(Covered([k \in 1..Len(t) |-> NewPageEnd(t, k - 1)], 0), LAMBDA removed :
    Without(t, removed))

\* \n\s*9 Joumada Ethania 1446\n.* at offset p: the end of the match, -1 for none
HijriFooterEnd(t, p) ==
  IF Tok(t, p) # "\n" THEN -1
  ELSE Let(p + 1 + SpaceRun(t, p + 1), LAMBDA q :
         IF Tok(t, q) = "9 Joumada Ethania 1446" /\ Tok(t, q + 1) = "\n"
         THEN Min({e \in (q + 2)..Len(t) : Tok(t, e) \in {"\n", "<end>"}})
         ELSE -1)

\* re.sub(r'\n\s*9 Joumada Ethania 1446\n.*', '', text)
SubHijriFooter(t) ==
  Let(Covered([k \in 1..Len(t) |-> HijriFooterEnd(t, k - 1)], 0), LAMBDA removed :
    Without(t, removed))

\* \n\s*JOURNAL OFFICIEL DE LA REPUBLIQUE ALGERIENNE N(o) \d+ at offset p:
\* the offset after the last token it takes whole, -1 for none
BannerEnd(t, p) ==
  IF Tok(t, p) # "\n" THEN -1
  ELSE Let(p + 1 + SpaceRun(t, p + 1), LAMBDA q :
         IF /\ Tok(t, q) = "JOURNAL OFFICIEL DE LA REPUBLIQUE ALGERIENNE N(o)"
            /\ Tok(t, q + 1) = " "
         THEN Let(Min({m \in (q + 2)..Len(t) : Tok(t, m) \notin Digits}),
                  LAMBDA de :
                IF de > q + 2 \/ Tok(t, de) \in DigitLed THEN de ELSE -1)
         ELSE -1)

\* re.sub(r'\n\s*JOURNAL OFFICIEL DE LA REPUBLIQUE ALGERIENNE N(o) \d+', '', text);
\* \d+ also takes the leading digit of "1er" and leaves "er"
SubBanner(t) ==
  Let([k \in 1..Len(t) |-> BannerEnd(t, k - 1)], LAMBDA ends :
  Let([k \in 1..Len(t) |->
         IF t[k] \in DigitLed /\ \E p \in 1..Len(t) : ends[p] = k - 1
         THEN "er" ELSE t[k]], LAMBDA cut :
  Let(Covered(ends, 0), LAMBDA removed : Without(cut, removed))))

\* LegalParser._pre_clean_gazette
PreCleanGazette(text) ==
  Let(SubNewPage(text), LAMBDA without_markers :
  Let(SubHijriFooter(without_markers), LAMBDA without_footers :
    SubBanner(without_footers)))

\* str.strip()
Strip(s) ==
  LET S == {k \in 1..Len(s) : ~IsSpace(s[k])}
  IN IF S = {} THEN <<>> ELSE SubSeq(s, Min(S), Max(S))

\* re.sub(r'\s+', ' ', text)
CollapseSpace(s) ==
  LET kept == SelectSeq(Offsets(s),
                        LAMBDA p : ~(IsSpace(Tok(s, p)) /\ IsSpace(Tok(s, p - 1))))
  IN [k \in 1..Len(kept) |->
        IF IsSpace(Tok(s, kept[k])) THEN " " ELSE Tok(s, kept[k])]

\* str.lstrip('.- ')
LStripChars(s) ==
  LET S == {k \in 1..Len(s) : s[k] \notin StripChars}
  IN IF S = {} THEN <<>> ELSE SubSeq(s, Min(S), Len(s))

\* str.lstrip('.-'): the space is not among the characters
LStripDots(s) ==
  LET S == {k \in 1..Len(s) : s[k] \notin StripChars \ {" "}}
  IN IF S = {} THEN <<>> ELSE SubSeq(s, Min(S), Len(s))

\* _clean_field with lstrip('.-') for lstrip('.- ')
CleanFieldDotsOnly(text) ==
  Let([k \in 1..Len(text) |-> IF text[k] = "\n" THEN " " ELSE text[k]],
      LAMBDA replaced :
  Let(Strip(replaced), LAMBDA stripped :
  Let(CollapseSpace(stripped), LAMBDA collapsed :
  Let(LStripDots(collapsed), LAMBDA lstripped : Strip(lstripped)))))

\* LegalParser._clean_field
CleanField(text) ==
  Let([k \in 1..Len(text) |-> IF text[k] = "\n" THEN " " ELSE text[k]],
      LAMBDA replaced :
  Let(Strip(replaced), LAMBDA stripped :
  Let(CollapseSpace(stripped), LAMBDA collapsed :
  Let(LStripChars(collapsed), LAMBDA lstripped : Strip(lstripped)))))

\* the marker without its optional part: SOMMAIRE alone
SommaireEndWithoutSuite(t, p) == p + 1

\* SOMMAIRE(?: \(suite\))? at offset p under IGNORECASE: the end of the match
SommaireEnd(t, p) ==
  IF Tok(t, p + 1) = " " /\ Fold(Tok(t, p + 2)) = "(suite)" THEN p + 3 ELSE p + 1

\* LegalParser._find_content_start: the text, and whether the warning was logged
FindContentStart(text) ==
  Let({p \in 0..(Len(text) - 1) : Fold(Tok(text, p)) = "sommaire"}, LAMBDA S :
    IF S # {}
    THEN [content |-> Slice(text, SommaireEnd(text, Min(S)), Len(text)),
          warned |-> FALSE]
    ELSE [content |-> text, warned |-> TRUE])

\* LegalParser.parse_articles: one record per match of ARTICLE_PATTERN
ParseArticles(text) ==
  Let(ArticleFindIter(text, 0), LAMBDA ms :
    [k \in 1..Len(ms) |->
       [number |-> CleanField(Slice(text, ms[k].numStart, ms[k].numEnd)),
        content |-> CleanField(Slice(text, ms[k].contentStart, ms[k].end))]])

\* the article block taken from the start of the header match
ArticleBlockFromHeaderStart(header_match) == header_match.start

\* where the text handed to parse_articles starts: doc_text[header_match.end():]
ArticleBlockStart(header_match) == header_match.end

\* a validation that rejects every record without articles
DegenerateWithoutArticles(title, articles) == articles = <<>>

\* "Final validation" of parse_document
Degenerate(title, articles) == title = NA /\ articles = <<>>

None == [some |-> FALSE]

\* parse_document from line 67 on, for the header match found
ParseMatched(doc_text, header_match, is_individual) ==
  Let(ArticleBlockStart(header_match), LAMBDA block :
  Let(Slice(doc_text, block, Len(doc_text)), LAMBDA article_text_block :
  Let(CleanField(header_match.title), LAMBDA title :
  Let(IF is_individual THEN <<>> ELSE ParseArticles(article_text_block),
      LAMBDA articles :
  Let(IF is_individual THEN <<>> ELSE ArticleFindIter(article_text_block, 0),
      LAMBDA found :
    IF Degenerate(title, articles) THEN None
    ELSE [some |-> TRUE,
          is_individual |-> is_individual,
          header_start |-> header_match.start,
          header_end |-> header_match.end,
          article_starts |-> [k \in 1..Len(found) |-> block + found[k].start],
          article_ends |-> [k \in 1..Len(found) |-> block + found[k].end],
          doc |-> [document_type |-> CleanField(header_match.type),
                   official_number |->
                     IF header_match.hasNumber
                     THEN CleanField(header_match.number) ELSE NA,
                   date |-> CleanField(header_match.date),
                   title |-> title,
                   articles |-> articles]])))))

\* parse_document with the individual decision pattern tried first
ParseDocumentIndividualFirst(doc_text) ==
  Let(IndividualDecisionSearch(doc_text), LAMBDA individual :
    IF individual.ok THEN ParseMatched(doc_text, individual, TRUE)
    ELSE Let(DocumentHeaderSearch(doc_text), LAMBDA full :
           IF full.ok THEN ParseMatched(doc_text, full, FALSE)
           ELSE None))

\* LegalParser.parse_document: None, or the document with the header match,
\* is_individual and the offsets in doc_text where the matches of its articles
\* start and end
ParseDocument(doc_text) ==
  Let(DocumentHeaderSearch(doc_text), LAMBDA full :
    IF full.ok THEN ParseMatched(doc_text, full, FALSE)
    ELSE Let(IndividualDecisionSearch(doc_text), LAMBDA individual :
           IF individual.ok THEN ParseMatched(doc_text, individual, TRUE)
           ELSE None))

\* "nomination" in title or "mettant fin" in title
PersonnelAction(title) ==
  \/ \E k \in 1..Len(title) : Occurs("nomination", title[k])
  \/ ContainsSeq(title, <<"mettant", " ", "fin">>)

\* no filter: every parsed document is appended
KeepAll(parsed_doc) == TRUE

\* the filter of process_full_gazette: whether a parsed document is appended
Keep(parsed_doc) ==
  IF parsed_doc.official_number = NA /\ parsed_doc.articles = <<>>
  THEN PersonnelAction(parsed_doc.title)
  ELSE TRUE

\* [match.start() for match in DOCUMENT_START_PATTERN.finditer(main_content)]:
\* a match is a keyword and the white space after it, so no two matches overlap
DocumentStarts(t) == SelectSeq(Offsets(t), LAMBDA p : DocumentStartAt(t, p))

\* end_pos with the test on i + 1 off by one: the segment before the last runs
\* to the end of the content too
SegmentEndOffByOne(starts, k, length) ==
  IF k + 1 < Len(starts) THEN starts[k + 1] ELSE length

\* end_pos of segment k
SegmentEnd(starts, k, length) ==
  IF k + 1 <= Len(starts) THEN starts[k + 1] ELSE length

\* main_content[start_pos:end_pos - 1]
SegmentTextShort(content, start_pos, end_pos) == Slice(content, start_pos, end_pos - 1)

\* main_content[start_pos:end_pos]
SegmentText(content, start_pos, end_pos) == Slice(content, start_pos, end_pos)

\* a loop in which a segment that gives no document empties the result list
AfterSegmentResetting(documents, parsed_doc) ==
  IF parsed_doc.some /\ Keep(parsed_doc.doc)
  THEN Append(documents, parsed_doc.doc)
  ELSE <<>>

\* parsed_documents after the turn of the loop that got parsed_doc (lines 120 to 129)
AfterSegment(documents, parsed_doc) ==
  IF parsed_doc.some /\ Keep(parsed_doc.doc)
  THEN Append(documents, parsed_doc.doc)
  ELSE documents

\* what one segment contributes to parsed_documents
SegmentResult(doc_text) ==
  Let(ParseDocument(doc_text), LAMBDA parsed :
    IF parsed.some /\ Keep(parsed.doc) THEN <<parsed.doc>> ELSE <<>>)

--------------------------------------------------------------------------
(* classifier.py and chunker.py *)

KeywordTable ==
  << <<"decret", "Decree">>, <<"loi", "Law">>, <<"arrete", "Order">>,
     <<"decision", "Decision">>, <<"circulaire", "Circular">>,
     <<"ordonnance", "Ordinance">> >>

Categories ==
  {"Decree", "Law", "Order", "Decision", "Circular", "Ordinance", "Uncategorized"}

\* keyword in doc_type, doc_type lowered
KeywordIn(keyword, document_type) ==
  \E k \in 1..Len(document_type) : Occurs(keyword, Lower(document_type[k]))

\* DocumentClassifier.classify: the chain of if statements, in order
RECURSIVE ClassifyFrom(_, _)
ClassifyFrom(document_type, k) ==
  IF k > Len(KeywordTable) THEN "Uncategorized"
  ELSE IF KeywordIn(KeywordTable[k][1], document_type) THEN KeywordTable[k][2]
  ELSE ClassifyFrom(document_type, k + 1)

\* the category of the keyword that comes first in the string
ClassifyByPosition(document) ==
  LET ty == document.document_type
      hits == {h \in (1..Len(ty)) \X (1..Len(KeywordTable)) :
                 Occurs(KeywordTable[h[2]][1], Lower(ty[h[1]]))}
  IN IF hits = {} THEN "Uncategorized"
     ELSE LET first == Min({h[1] : h \in hits})
          IN KeywordTable[Min({h[2] : h \in {g \in hits : g[1] = first}})][2]

Classify(document) == ClassifyFrom(document.document_type, 1)

\* metadata with the date taken from the official number
MetadataDateFromNumber(document, article_number) ==
  [source_document_type |-> document.document_type,
   source_official_number |-> document.official_number,
   source_date |-> document.official_number,
   source_category |-> document.category,
   source_article_number |-> article_number]

\* base_metadata of chunk_document with the article number added
Metadata(document, article_number) ==
  [source_document_type |-> document.document_type,
   source_official_number |-> document.official_number,
   source_date |-> document.date,
   source_category |-> document.category,
   source_article_number |-> article_number]

\* the chunk of a document without articles
TitleChunk(document) ==
  [text |-> document.document_type \o <<":", " ">> \o document.title,
   metadata |-> Metadata(document, NA)]

\* the chunk of one article
ArticleChunk(document, article) ==
  [text |-> <<"Article", " ">> \o article.number \o <<":", " ">> \o article.content,
   metadata |-> Metadata(document, article.number)]

\* a chunker without the title chunk: article chunks only
ChunkArticlesOnly(document) ==
  [k \in 1..Len(document.articles) |-> ArticleChunk(document, document.articles[k])]

\* DocumentChunker.chunk_document, as the list of what it yields
ChunkDocument(document) ==
  IF document.articles = <<>> THEN <<TitleChunk(document)>>
  ELSE [k \in 1..Len(document.articles) |->
          ArticleChunk(document, document.articles[k])]

\* doc['category'] = classifier.classify(doc)
WithCategory(doc) ==
  [document_type |-> doc.document_type, official_number |-> doc.official_number,
   date |-> doc.date, title |-> doc.title, articles |-> doc.articles,
   category |-> Classify(doc)]

--------------------------------------------------------------------------
(* The gazette texts the model is run on: lines joined by "\n" *)

MaxLines == 3

FullHeaderLine ==
  <<"Decret", " ", "executif", " ", "n(o)", " ", "24", "-", "100", " ", "du", " ",
    "12", " ", "janvier", " ", "portant", " ", "creation">>

SentinelTitleLine ==
  <<"Loi", " ", "organique", " ", "n(o)", " ", "5", " ", "du", " ", "12", " ",
    "fixant", " ", "N/A">>

IndividualLine ==
  <<"Decret", " ", "presidentiel", " ", "du", " ", "3", " ", "mars", " ",
    "mettant", " ", "fin", " ", "aux", " ", "fonctions">>

CapitalisedIndividualLine ==
  <<"Arrete", " ", "du", " ", "3", " ", "mars", " ", "Portant", " ", "Nomination">>

PreambleLine == <<"Le President de la Republique,">>

ArticleWordLine == <<"Article", " ", "1er", ".", " ", "EMDASH", " ", "cree">>

ArtDotLine == <<"Art", ".", " ", "2", " ", "EMDASH", " ", "present">>

ClosingLine == <<"Fait a Alger">>

SommaireLine == <<"SOMMAIRE">>

Lines ==
  {FullHeaderLine, SentinelTitleLine, IndividualLine, CapitalisedIndividualLine,
   PreambleLine, ArticleWordLine, ArtDotLine, ClosingLine, SommaireLine}

\* "\n".join(lines)
RECURSIVE JoinLines(_)
JoinLines(ls) ==
  IF ls = <<>> THEN <<>>
  ELSE IF Len(ls) = 1 THEN ls[1]
  ELSE ls[1] \o <<"\n">> \o JoinLines(Tail(ls))

GazetteTexts ==
  {JoinLines(ls) : ls \in UNION {[1..k -> Lines] : k \in 0..MaxLines}}

--------------------------------------------------------------------------
(* The run of tools/run_parser.py and tools/prepare_for_rag.py on one text *)

VARIABLES
  full_text,         \* the text of the gazette, as the OCR step left it
  cleaned_gazette_text,  \* process_full_gazette: the text _pre_clean_gazette returned
  main_content,      \* process_full_gazette: the text after the table of contents
  starts,            \* process_full_gazette: the offsets of the act starts
  spans,             \* <<start_pos, end_pos>> of each segment
  doc_texts,         \* process_full_gazette: the segments
  segment,           \* the index of the segment the loop is at, from 1
  parses,            \* what parse_document returned for each segment so far
  outcomes,          \* what the loop did with each segment so far
  parsed_documents,  \* process_full_gazette: the result list
  log,               \* the records handed to logging
  structured_data,   \* the structured JSON file: the documents with their category
  saved,             \* whether the structured JSON file was written
  all_chunks,        \* the chunks file
  cleanings,         \* _clean_field on its own: its argument, then what each call returned
  processed_text,    \* data/processed_text: the text file of each gazette, or NoFile
  structured_json,   \* data/structured_json: the JSON file of each gazette, or NoFile
  rag_chunks,        \* data/rag_chunks: the chunks file of each gazette, or NoFile
  documents,         \* the rows of the table documents
  chunks,            \* the rows of the table chunks
  force_rerun,       \* run_full_pipeline.py: args.force_rerun
  json_output_paths, \* run_parsing: the list it returns
  pending,           \* the files the loop that is running has still to go through
  runs,              \* how many times the tool was started
  vectors,           \* main.py: app.state.vectors
  request,           \* the last request to /search: <<[q, top_k]>>
  results,           \* what it was answered: <<[status, query, results]>>
  pc

vars ==
  <<full_text, cleaned_gazette_text, main_content, starts, spans, doc_texts, segment, parses, outcomes,
    parsed_documents, log, structured_data, saved, all_chunks, cleanings,
    processed_text, structured_json, rag_chunks, documents, chunks, force_rerun,
    json_output_paths, pending, runs, vectors, request, results, pc>>

\* the variables of the parser, the classifier and the chunker run on one text
parsing ==
  <<full_text, cleaned_gazette_text, main_content, starts, spans, doc_texts,
    segment, parses, outcomes, parsed_documents, log, structured_data, saved,
    all_chunks, cleanings>>

\* the data directory, the database and the API
store ==
  <<processed_text, structured_json, rag_chunks, documents, chunks, force_rerun,
    json_output_paths, pending, runs, vectors, request, results>>

\* a directory is a function of the gazette stem: NoFile where there is no file
\* of that stem, File(content) where there is one
NoFile == <<>>

File(content) == <<content>>

\* what reading the file gives
Content(file) == file[1]

\* the gazettes of the data directory, as sorted() orders their files
StemOrder == <<"F2024001", "F2024002">>

Stems == {StemOrder[k] : k \in 1..Len(StemOrder)}

\* no file in the data directory, no row in the database, nothing loaded
NoStore ==
  /\ processed_text = [g \in Stems |-> NoFile]
  /\ structured_json = [g \in Stems |-> NoFile]
  /\ rag_chunks = [g \in Stems |-> NoFile]
  /\ documents = <<>>
  /\ chunks = <<>>
  /\ force_rerun = FALSE
  /\ json_output_paths = <<>>
  /\ pending = <<>>
  /\ runs = 0
  /\ vectors = <<>>
  /\ request = <<>>
  /\ results = <<>>

Empty ==
  /\ main_content = <<>>
  /\ starts = <<>>
  /\ spans = <<>>
  /\ doc_texts = <<>>
  /\ segment = 1
  /\ parses = <<>>
  /\ outcomes = <<>>
  /\ parsed_documents = <<>>
  /\ log = <<>>
  /\ structured_data = <<>>
  /\ saved = FALSE
  /\ all_chunks = <<>>
  /\ cleaned_gazette_text = <<>>

Init ==
  /\ full_text \in GazetteTexts
  /\ Empty
  /\ cleanings = <<>>
  /\ NoStore
  /\ pc = "start"

LogRecord(level, event, title) == [level |-> level, event |-> event, title |-> title]

\* process_full_gazette up to the list of segments (lines 103 to 114)
Segment ==
  /\ pc = "start"
  /\ \E cleaned \in {PreCleanGazette(full_text)} :
     \E located \in {FindContentStart(cleaned)} :
       \E found \in {DocumentStarts(located.content)} :
         /\ cleaned_gazette_text' = cleaned
         /\ main_content' = located.content
         /\ starts' = found
         /\ spans' = [k \in 1..Len(found) |->
                        <<found[k], SegmentEnd(found, k, Len(located.content))>>]
         /\ doc_texts' = [k \in 1..Len(found) |->
                            SegmentText(located.content, found[k],
                                        SegmentEnd(found, k, Len(located.content)))]
         /\ log' = IF located.warned
                   THEN <<LogRecord("WARNING", "SOMMAIRE section not found", <<>>)>>
                   ELSE <<>>
         /\ pc' = IF found = <<>> THEN "parsed" ELSE "parsing"
  /\ UNCHANGED <<full_text, segment, parses, outcomes, parsed_documents,
                 structured_data, saved, all_chunks, cleanings, store>>

\* one turn of the loop of process_full_gazette (lines 117 to 129)
ParseSegment ==
  /\ pc = "parsing"
  /\ \E parsed_doc \in {ParseDocument(doc_texts[segment])} :
       \E kept \in {parsed_doc.some /\ Keep(parsed_doc.doc)} :
         /\ parses' = Append(parses, parsed_doc)
         /\ outcomes' = Append(outcomes, IF ~parsed_doc.some THEN "no document"
                                         ELSE IF kept THEN "appended" ELSE "skipped")
         /\ parsed_documents' = AfterSegment(parsed_documents, parsed_doc)
         /\ log' = log
                     \o <<LogRecord("INFO", "Parsing potential document segment", <<>>)>>
                     \o IF parsed_doc.some /\ ~kept
                        THEN <<LogRecord("WARNING",
                                 "Skipping document with no number and no articles",
                                 parsed_doc.doc.title)>>
                        ELSE <<>>
  /\ segment' = segment + 1
  /\ pc' = IF segment = Len(doc_texts) THEN "parsed" ELSE "parsing"
  /\ UNCHANGED <<full_text, cleaned_gazette_text, main_content, starts, spans,
                 doc_texts, structured_data, saved, all_chunks, cleanings, store>>

\* run_parser.py main, lines 58 to 73: classify every document and save the JSON
ClassifyAndSave ==
  /\ pc = "parsed"
  /\ IF parsed_documents # <<>>
     THEN /\ structured_data' =
               [k \in 1..Len(parsed_documents) |-> WithCategory(parsed_documents[k])]
          /\ saved' = TRUE
          /\ pc' = "saved"
     ELSE /\ UNCHANGED <<structured_data, saved>>
          /\ pc' = "done"
  /\ UNCHANGED <<full_text, cleaned_gazette_text, main_content, starts, spans,
                 doc_texts, segment,
                 parses, outcomes, parsed_documents, log, all_chunks, cleanings, store>>

\* prepare_for_rag.py main, lines 43 to 58: chunk every document of the JSON file
ChunkAll ==
  /\ pc = "saved"
  /\ all_chunks' =
       Concat([k \in 1..Len(structured_data) |-> ChunkDocument(structured_data[k])])
  /\ pc' = "done"
  /\ UNCHANGED <<full_text, cleaned_gazette_text, main_content, starts, spans,
                 doc_texts, segment,
                 parses, outcomes, parsed_documents, log, structured_data, saved,
                 cleanings, store>>

Next == Segment \/ ParseSegment \/ ClassifyAndSave \/ ChunkAll

Spec == Init /\ [][Next]_vars

--------------------------------------------------------------------------
(* A gazette with one act laid out as a regular decree: the table of       *)
(* contents marker, a full header, a preamble opener, articles written     *)
(* "Article <number>. EMDASH <body>" at line start, the closing formula    *)

MaxScenarioArticles == 2

ScenarioTypes ==
  {<<"Decret", " ", "executif">>, <<"Decret", " ", "presidentiel">>,
   <<"Loi", " ", "organique">>, <<"Arrete", " ", "interministeriel">>}

ScenarioOpeners ==
  {"Le President de la Republique,", "Le Premier ministre,", "Vu la Constitution"}

ScenarioNumber == <<"24", "-", "100">>

ScenarioDate == <<"12", " ", "janvier", " ", "2024">>

ScenarioTitle == <<"creation", " ", "d'un", " ", "etablissement">>

ArticleNumbers == <<"1er", "2", "3", "5">>

ArticleBody(k) ==
  IF k % 2 = 1 THEN <<"Il", " ", "est", " ", "cree", "...">>
  ELSE <<"Le", " ", "present", " ", "decret", "...">>

ScenarioHeaderLine(type) ==
  type \o <<" ", "n(o)", " ">> \o ScenarioNumber \o <<" ", "du", " ">>
       \o ScenarioDate \o <<" ", "portant", " ">> \o ScenarioTitle

ScenarioArticleLine(k) ==
  <<"Article", " ", ArticleNumbers[k], ".", " ", "EMDASH", " ">> \o ArticleBody(k)

ScenarioClosingLine ==
  <<"Fait a Alger", ",", " ", "le", " ">> \o ScenarioDate \o <<".">>

Scenarios ==
  [type : ScenarioTypes, opener : ScenarioOpeners,
   articles : 1..MaxScenarioArticles, ellipsis : BOOLEAN]

ScenarioText(sc) ==
  JoinLines(<<SommaireLine, ScenarioHeaderLine(sc.type), <<sc.opener>>>>
            \o (IF sc.ellipsis THEN << <<"...">> >> ELSE <<>>)
            \o [k \in 1..sc.articles |-> ScenarioArticleLine(k)]
            \o <<ScenarioClosingLine>>)

InitScenario ==
  /\ full_text \in {ScenarioText(sc) : sc \in Scenarios}
  /\ Empty
  /\ cleanings = <<>>
  /\ NoStore
  /\ pc = "start"

SpecScenario == InitScenario /\ [][Next]_vars

--------------------------------------------------------------------------
(* classify on its own: run_parser.py's classification of a structured     *)
(* document whose document_type is any short string                        *)

MaxTypeLen == 2

TypeTokens ==
  {"Decret", "DECRET", "Loi", "emploi", "Arrete", "Decision", "Circulaire",
   "ordonnance", "executif", " "}

TypeStrings == UNION {[1..k -> TypeTokens] : k \in 0..MaxTypeLen}

InitClassify ==
  /\ full_text = <<>>
  /\ Empty!1 /\ Empty!2 /\ Empty!3 /\ Empty!4 /\ Empty!5 /\ Empty!6 /\ Empty!7
  /\ \E ty \in TypeStrings :
       parsed_documents =
         <<[document_type |-> ty, official_number |-> NA, date |-> NA,
            title |-> NA, articles |-> <<>>]>>
  /\ log = <<>>
  /\ structured_data = <<>>
  /\ saved = FALSE
  /\ all_chunks = <<>>
  /\ cleaned_gazette_text = <<>>
  /\ cleanings = <<>>
  /\ NoStore
  /\ pc = "parsed"

NextClassify == ClassifyAndSave

SpecClassify == InitClassify /\ [][NextClassify]_vars

--------------------------------------------------------------------------
(* classification and chunking on their own: the list of structured        *)
(* documents is any short list of documents with up to MaxArticles articles *)

MaxArticles == 2

MaxDocs == 2

SomeArticles ==
  {[number |-> <<"1er">>, content |-> <<"Il", " ", "est", " ", "cree">>],
   [number |-> <<"2">>, content |-> <<"Le", " ", "present", " ", "texte">>]}

ArticleLists == UNION {[1..k -> SomeArticles] : k \in 0..MaxArticles}

SomeDocuments ==
  {[document_type |-> <<"Decret", " ", "executif">>,
    official_number |-> <<"24", "-", "100">>,
    date |-> <<"12", " ", "janvier">>,
    title |-> <<"creation">>,
    articles |-> as] : as \in ArticleLists}
  \cup
  {[document_type |-> <<"Arrete">>,
    official_number |-> NA,
    date |-> <<"3", " ", "mars">>,
    title |-> <<"portant", " ", "nomination">>,
    articles |-> as] : as \in ArticleLists}

DocumentLists == UNION {[1..k -> SomeDocuments] : k \in 0..MaxDocs}

InitChunk ==
  /\ full_text = <<>>
  /\ Empty!1 /\ Empty!2 /\ Empty!3 /\ Empty!4 /\ Empty!5 /\ Empty!6 /\ Empty!7
  /\ parsed_documents \in DocumentLists
  /\ log = <<>>
  /\ structured_data = <<>>
  /\ saved = FALSE
  /\ all_chunks = <<>>
  /\ cleaned_gazette_text = <<>>
  /\ cleanings = <<>>
  /\ NoStore
  /\ pc = "parsed"

NextChunk == ClassifyAndSave \/ ChunkAll

SpecChunk == InitChunk /\ [][NextChunk]_vars

--------------------------------------------------------------------------
(* _clean_field on its own: called on any short string, then on what it    *)
(* returned                                                                *)

MaxFieldLen == 3

MaxCleanings == 2

FieldTokens == {" ", "\n", ".", "-", "...", "texte", "N/A"}

FieldStrings == UNION {[1..k -> FieldTokens] : k \in 0..MaxFieldLen}

InitClean ==
  /\ full_text = <<>>
  /\ Empty
  /\ cleanings \in {<<text>> : text \in FieldStrings}
  /\ NoStore
  /\ pc = "clean"

\* text = self._clean_field(text)
CleanFieldCall ==
  /\ pc = "clean"
  /\ Len(cleanings) <= MaxCleanings
  /\ cleanings' = Append(cleanings, CleanField(cleanings[Len(cleanings)]))
  /\ UNCHANGED <<full_text, cleaned_gazette_text, main_content, starts, spans,
                 doc_texts, segment,
                 parses, outcomes, parsed_documents, log, structured_data, saved,
                 all_chunks, pc, store>>

NextClean == CleanFieldCall

SpecClean == InitClean /\ [][NextClean]_vars

--------------------------------------------------------------------------
(* Gazettes whose acts have the headers that set the two header patterns   *)
(* apart: one that both patterns match, one with an empty title, one whose *)
(* keyword matches by case folding only, individual decisions              *)

MaxHeaderLines == 3

BothPatternsLine ==
  <<"Decret", " ", "executif", " ", "du", " ", "3", " ", "portant", " ",
    "nomination", " ", "n(o)", " ", "5", " ", "du", " ", "3", " ", "fixant", " ",
    "texte">>

EmptyTitleLine ==
  <<"Decret", " ", "executif", " ", "n(o)", " ", "5", " ", "du", " ", "12", " ",
    "portant", " ">>

DotlessLoiLine ==
  <<"Lo(dotless i)", " ", "organique", " ", "n(o)", " ", "5", " ", "du", " ",
    "12", " ", "fixant", " ", "texte">>

HeaderLines ==
  {BothPatternsLine, EmptyTitleLine, DotlessLoiLine, SentinelTitleLine,
   IndividualLine, CapitalisedIndividualLine, PreambleLine, ArtDotLine}

HeaderTexts ==
  {JoinLines(ls) : ls \in UNION {[1..k -> HeaderLines] : k \in 0..MaxHeaderLines}}

InitHeaders ==
  /\ full_text \in HeaderTexts
  /\ Empty
  /\ cleanings = <<>>
  /\ NoStore
  /\ pc = "start"

SpecHeaders == InitHeaders /\ [][Next]_vars

--------------------------------------------------------------------------
(* Gazettes of one act with a full header and a preamble opener, followed  *)
(* by lines of an article block: articles with and without a body on the   *)
(* line of their number, lines that continue a body, the closing formula   *)

MaxArticleLines == 3

BareArtLine == <<"Art", ".", " ", "5">>

BodyLine == <<"Il", " ", "est", " ", "cree">>

ArticleLines == {ArtDotLine, BareArtLine, BodyLine, ClosingLine}

ArticleTexts ==
  {JoinLines(<<FullHeaderLine, PreambleLine>> \o ls) :
     ls \in UNION {[1..k -> ArticleLines] : k \in 0..MaxArticleLines}}

InitArticles ==
  /\ full_text \in ArticleTexts
  /\ Empty
  /\ cleanings = <<>>
  /\ NoStore
  /\ pc = "start"

SpecArticles == InitArticles /\ [][Next]_vars

--------------------------------------------------------------------------
(* Texts as the OCR step may leave them: the page marker and the two parts *)
(* of one, the table of contents marker with and without "(suite)", line   *)
(* breaks and an act, put one after the other                              *)

MaxPieces == 3

Pieces ==
  {NewPageMarker, <<"---", " ", "NEW">>, <<" ", "PAGE", " ", "---">>, <<"\n">>,
   SommaireLine, <<"Sommaire", " ", "(suite)">>, IndividualLine}

PiecedTexts == {Concat(ps) : ps \in UNION {[1..k -> Pieces] : k \in 0..MaxPieces}}

InitNormalize ==
  /\ full_text \in PiecedTexts
  /\ Empty
  /\ cleanings = <<>>
  /\ NoStore
  /\ pc = "start"

SpecNormalize == InitNormalize /\ [][Next]_vars

--------------------------------------------------------------------------
(* tools/ingest_to_db.py: the JSON files and the chunks files of the data  *)
(* directory are loaded into the tables documents and chunks. A file is    *)
(* <<stem, suffix>>; the files stay as they are from one run to the next   *)

MaxRuns == 2

MaxIngestArticles == 2

\* the documents a JSON file holds: one act, with or without articles
IngestDocuments ==
  {WithCategory(
     [document_type |-> <<"Decret", " ", "executif">>,
      official_number |-> <<"24", "-", "100">>,
      date |-> <<"12", " ", "janvier">>,
      title |-> <<"creation">>,
      articles |-> [k \in 1..n |-> [number |-> <<"1">>, content |-> <<"texte">>]]])
   : n \in {0, MaxIngestArticles}}

\* the JSON files: a list of documents, which can be empty
JsonFiles == {File(<<>>)} \cup {File(<<doc>>) : doc \in IngestDocuments}

\* the chunks files
ChunkFiles == {File(ChunkDocument(doc)) : doc \in IngestDocuments}

\* sorted(list(directory.glob("**/*<suffix>"))): the files there are, in order
SortedFiles(directory, suffix) ==
  [k \in 1..Len(SelectSeq(StemOrder, LAMBDA g : directory[g] # NoFile)) |->
     <<SelectSeq(StemOrder, LAMBDA g : directory[g] # NoFile)[k], suffix>>]

\* chunk_path.name.replace('.chunks.json', '.json')
ReplaceChunksSuffix(name) ==
  IF name[2] = ".chunks.json" THEN <<name[1], ".json">> ELSE name

\* DBManager.get_document_by_filename: <<id>> of the row, <<>> for None
GetDocumentByFilename(rows, file_name) ==
  IF \E r \in 1..Len(rows) : rows[r].file_name = file_name
  THEN <<rows[CHOOSE r \in 1..Len(rows) : rows[r].file_name = file_name].id>>
  ELSE <<>>

\* DBManager.insert_document: id is AUTOINCREMENT and no row is ever deleted
InsertDocument(rows, file_name, category, data) ==
  Append(rows, [id |-> Len(rows) + 1, file_name |-> file_name,
                category |-> category, data |-> data])

\* model.encode(text): the embedding is a function of the text
Encode(text) == <<"embedding">> \o text

\* the loop of lines 57 to 59: DBManager.insert_chunk for every chunk of the file
InsertChunks(rows, doc_id, file) ==
  rows \o [k \in 1..Len(file) |->
             [id |-> Len(rows) + k, document_id |-> doc_id,
              chunk_text |-> file[k].text, embedding |-> Encode(file[k].text),
              metadata |-> file[k].metadata]]

\* data[0].get('category', 'Uncategorized') if data else 'Uncategorized'
CategoryOf(data) == IF data # <<>> THEN data[1].category ELSE "Uncategorized"

InitIngest ==
  /\ full_text = <<>>
  /\ Empty
  /\ cleanings = <<>>
  /\ processed_text = [g \in Stems |-> NoFile]
  /\ structured_json \in [Stems -> {NoFile} \cup JsonFiles]
  /\ rag_chunks \in [Stems -> {NoFile} \cup ChunkFiles]
  /\ documents = <<>>
  /\ chunks = <<>>
  /\ force_rerun = FALSE
  /\ json_output_paths = <<>>
  /\ pending = <<>>
  /\ runs = 0
  /\ vectors = <<>>
  /\ request = <<>>
  /\ results = <<>>
  /\ pc = "idle"

\* main, lines 16 to 27: the tool is started and lists the files
StartIngestion ==
  /\ pc = "idle"
  /\ runs < MaxRuns
  /\ runs' = runs + 1
  /\ pending' = <<SortedFiles(structured_json, ".json"),
                  SortedFiles(rag_chunks, ".chunks.json")>>
  /\ pc' = "ingesting"
  /\ UNCHANGED <<parsing, processed_text, structured_json, rag_chunks, documents,
                 chunks, force_rerun, json_output_paths, vectors, request, results>>

\* main, lines 30 to 39: one turn of the loop over the JSON files
IngestDocument ==
  /\ pc = "ingesting"
  /\ pending[1] # <<>>
  /\ \E json_path \in {Head(pending[1])} :
       \E data \in {Content(structured_json[json_path[1]])} :
         documents' =
           IF GetDocumentByFilename(documents, json_path) # <<>>
           THEN documents
           ELSE InsertDocument(documents, json_path, CategoryOf(data), data)
  /\ pending' = <<Tail(pending[1]), pending[2]>>
  /\ UNCHANGED <<parsing, processed_text, structured_json, rag_chunks, chunks,
                 force_rerun, json_output_paths, runs, vectors, request, results, pc>>

\* main, lines 42 to 59: one turn of the loop over the chunks files
IngestChunks ==
  /\ pc = "ingesting"
  /\ pending[1] = <<>>
  /\ pending[2] # <<>>
  /\ \E chunk_path \in {Head(pending[2])} :
       \E doc_id \in {GetDocumentByFilename(documents, ReplaceChunksSuffix(chunk_path))} :
         chunks' =
           IF doc_id = <<>>
           THEN chunks
           ELSE InsertChunks(chunks, doc_id[1], Content(rag_chunks[chunk_path[1]]))
  /\ pending' = <<pending[1], Tail(pending[2])>>
  /\ UNCHANGED <<parsing, processed_text, structured_json, rag_chunks, documents,
                 force_rerun, json_output_paths, runs, vectors, request, results, pc>>

\* main, line 61: both loops are through
IngestionComplete ==
  /\ pc = "ingesting"
  /\ pending = <<<<>>, <<>>>>
  /\ pending' = <<>>
  /\ pc' = "idle"
  /\ UNCHANGED <<parsing, processed_text, structured_json, rag_chunks, documents,
                 chunks, force_rerun, json_output_paths, runs, vectors, request, results>>

NextIngest == StartIngestion \/ IngestDocument \/ IngestChunks \/ IngestionComplete

SpecIngest == InitIngest /\ [][NextIngest]_vars

--------------------------------------------------------------------------
(* tools/run_full_pipeline.py: OCR, parsing and classification, chunking,  *)
(* each over the files of the data directory, which keeps the outputs of   *)
(* the run before. What the OCR extracts from a PDF is an input of the run *)

MaxPipelineRuns == 2

\* LegalParser.process_full_gazette, as the list it returns
ProcessFullGazette(text) ==
  Let(FindContentStart(PreCleanGazette(text)).content, LAMBDA content :
    Let(DocumentStarts(content), LAMBDA found :
      Concat([k \in 1..Len(found) |->
                SegmentResult(SegmentText(content, found[k],
                                          SegmentEnd(found, k, Len(content))))])))

\* run_parsing, lines 124 to 127: what is written for a text, <<>> for nothing
ParseAndClassify(raw_text) ==
  Let(ProcessFullGazette(raw_text), LAMBDA parsed :
    [k \in 1..Len(parsed) |-> WithCategory(parsed[k])])

\* run_rag_prep, line 146
ChunkAllDocuments(data) ==
  Concat([k \in 1..Len(data) |-> ChunkDocument(data[k])])

\* ocr_processor.process_pdf(pdf_path): a gazette with a decree, one with an
\* individual decision, one with no act, and "" when the OCR fails
ExtractedTexts ==
  {JoinLines(<<FullHeaderLine, PreambleLine>>), IndividualLine, ClosingLine, <<>>}

InitPipeline ==
  /\ full_text = <<>>
  /\ Empty
  /\ cleanings = <<>>
  /\ NoStore
  /\ pc = "idle"

\* main, lines 154 to 189: the options are read and the PDFs are listed
StartPipeline ==
  /\ pc = "idle"
  /\ runs < MaxPipelineRuns
  /\ runs' = runs + 1
  /\ force_rerun' \in BOOLEAN
  /\ pending' = StemOrder
  /\ json_output_paths' = <<>>
  /\ pc' = "ocr"
  /\ UNCHANGED <<parsing, processed_text, structured_json, rag_chunks, documents,
                 chunks, vectors, request, results>>

\* run_ocr: one turn of its loop, or its return (txt_output_paths holds the
\* path of every PDF)
RunOcr ==
  /\ pc = "ocr"
  /\ IF pending # <<>>
     THEN /\ \E g \in {Head(pending)} : \E extracted_text \in ExtractedTexts :
               processed_text' =
                 IF ~force_rerun /\ processed_text[g] # NoFile THEN processed_text
                 ELSE IF extracted_text # <<>>
                      THEN [processed_text EXCEPT ![g] = File(extracted_text)]
                      ELSE processed_text
          /\ pending' = Tail(pending)
          /\ pc' = pc
     ELSE /\ pending' = StemOrder
          /\ pc' = "parsing files"
          /\ UNCHANGED processed_text
  /\ UNCHANGED <<parsing, structured_json, rag_chunks, documents, chunks,
                 force_rerun, json_output_paths, runs, vectors, request, results>>

\* run_parsing: one turn of its loop, or its return
RunParsing ==
  /\ pc = "parsing files"
  /\ IF pending # <<>>
     THEN /\ \E g \in {Head(pending)} :
               IF processed_text[g] = NoFile
               THEN UNCHANGED <<json_output_paths, structured_json>>
               ELSE /\ json_output_paths' = Append(json_output_paths, g)
                    /\ IF ~force_rerun /\ structured_json[g] # NoFile
                       THEN UNCHANGED structured_json
                       ELSE \E data \in {ParseAndClassify(Content(processed_text[g]))} :
                              structured_json' =
                                IF data # <<>>
                                THEN [structured_json EXCEPT ![g] = File(data)]
                                ELSE structured_json
          /\ pending' = Tail(pending)
          /\ pc' = pc
     ELSE /\ pending' = json_output_paths
          /\ pc' = "chunking files"
          /\ UNCHANGED <<json_output_paths, structured_json>>
  /\ UNCHANGED <<parsing, processed_text, rag_chunks, documents, chunks,
                 force_rerun, runs, vectors, request, results>>

\* run_rag_prep: one turn of its loop, or its return
RunRagPrep ==
  /\ pc = "chunking files"
  /\ IF pending # <<>>
     THEN /\ \E g \in {Head(pending)} :
               IF structured_json[g] = NoFile
                  \/ (~force_rerun /\ rag_chunks[g] # NoFile)
               THEN UNCHANGED rag_chunks
               ELSE \E all \in {ChunkAllDocuments(Content(structured_json[g]))} :
                      rag_chunks' =
                        IF all # <<>>
                        THEN [rag_chunks EXCEPT ![g] = File(all)]
                        ELSE rag_chunks
          /\ pending' = Tail(pending)
          /\ pc' = pc
     ELSE /\ pc' = "idle"
          /\ UNCHANGED <<pending, rag_chunks>>
  /\ UNCHANGED <<parsing, processed_text, structured_json, documents, chunks,
                 force_rerun, json_output_paths, runs, vectors, request, results>>

NextPipeline == StartPipeline \/ RunOcr \/ RunParsing \/ RunRagPrep

SpecPipeline == InitPipeline /\ [][NextPipeline]_vars

--------------------------------------------------------------------------
(* main.py: the API loads every row of the table chunks at startup and     *)
(* answers /search from the vectors in memory. The requests come after the *)
(* startup, so the test of line 61 never fails                             *)

MaxVectors == 3

MaxTopK == 4

MaxScore == 2

\* the chunk texts of the table; a text can be in it more than once
SearchTexts == {<<"a">>, <<"b">>}

\* a query, written as the similarity of its embedding to that of each text
Queries == [SearchTexts -> 0..MaxScore]

\* util.cos_sim(query_embedding, all_embeddings)[0], one embedding at a time
CosSim(q, embedding) == q[Tail(embedding)]

\* np.argsort(similarities): an order of the indices in which the scores
\* ascend; which one it is when scores are equal is not specified
ArgSorts(similarities) ==
  {order \in [1..Len(similarities) -> 1..Len(similarities)] :
     /\ \A i, j \in 1..Len(similarities) : i # j => order[i] # order[j]
     /\ \A i \in 1..Len(similarities) - 1 :
          similarities[order[i]] <= similarities[order[i + 1]]}

\* a[start:] of Python: a start below zero counts from the end, and -0 is 0
SliceFrom(a, start) ==
  IF start < 0
  THEN SubSeq(a, (IF Len(a) + start < 0 THEN 0 ELSE Len(a) + start) + 1, Len(a))
  ELSE SubSeq(a, (IF start > Len(a) THEN Len(a) ELSE start) + 1, Len(a))

InitSearch ==
  /\ full_text = <<>>
  /\ Empty
  /\ cleanings = <<>>
  /\ processed_text = [g \in Stems |-> NoFile]
  /\ structured_json = [g \in Stems |-> NoFile]
  /\ rag_chunks = [g \in Stems |-> NoFile]
  /\ documents = <<>>
  /\ chunks \in
       UNION {{InsertChunks(<<>>, 1,
                 [k \in 1..n |-> [text |-> texts[k],
                                  metadata |-> [source_category |-> "Decree"]]])
               : texts \in [1..n -> SearchTexts]} : n \in 0..MaxVectors}
  /\ force_rerun = FALSE
  /\ json_output_paths = <<>>
  /\ pending = <<>>
  /\ runs = 0
  /\ vectors = <<>>
  /\ request = <<>>
  /\ results = <<>>
  /\ pc = "startup"

\* load_resources, lines 25 to 49
LoadResources ==
  /\ pc = "startup"
  /\ vectors' = [k \in 1..Len(chunks) |->
                   [id |-> chunks[k].id, embedding |-> chunks[k].embedding,
                    text |-> chunks[k].chunk_text, metadata |-> chunks[k].metadata]]
  /\ pc' = "ready"
  /\ UNCHANGED <<parsing, processed_text, structured_json, rag_chunks, documents,
                 chunks, force_rerun, json_output_paths, pending, runs, request,
                 results>>

\* search_documents, lines 56 to 90. With no vector in memory cos_sim gets an
\* empty array: the request fails in the library or is answered with no result
SearchDocuments ==
  /\ pc = "ready"
  /\ \E q \in Queries, top_k \in 0..MaxTopK :
       /\ request' = <<[q |-> q, top_k |-> top_k]>>
       /\ \E similarities \in
              {[k \in 1..Len(vectors) |-> CosSim(q, vectors[k].embedding)]} :
            \E order \in ArgSorts(similarities) :
              \E top_k_indices \in {SliceFrom(order, 0 - top_k)} :
                \/ results' =
                     <<[status |-> 200, query |-> q,
                        results |->
                          [i \in 1..Len(top_k_indices) |->
                             Let(top_k_indices[Len(top_k_indices) + 1 - i], LAMBDA idx :
                               [score |-> similarities[idx],
                                text |-> vectors[idx].text,
                                metadata |-> vectors[idx].metadata])]]>>
                \/ /\ vectors = <<>>
                   /\ results' = <<[status |-> 500, query |-> q, results |-> <<>>]>>
  /\ UNCHANGED <<parsing, processed_text, structured_json, rag_chunks, documents,
                 chunks, force_rerun, json_output_paths, pending, runs, vectors, pc>>

NextSearch == LoadResources \/ SearchDocuments

SpecSearch == InitSearch /\ [][NextSearch]_vars

--------------------------------------------------------------------------
(* Properties of the segmentation *)

SegmentsBuilt == pc # "start"

\* the number of segments that offset p of the content lies in
SegmentsAt(p) == Cardinality({k \in 1..Len(spans) : spans[k][1] <= p /\ p < spans[k][2]})

\* C1: the segments are in strictly increasing order of start offset, each
\* starts at an act start and ends exactly where the next one starts, the last
\* one ends at the length of the content, and each holds the text of its span
C1_SegmentsOrdered ==
  SegmentsBuilt =>
    /\ Len(spans) = Len(starts) /\ Len(doc_texts) = Len(starts)
    /\ \A k \in 1..Len(spans) :
         /\ spans[k][1] = starts[k]
         /\ spans[k][1] < spans[k][2]
         /\ doc_texts[k] = Slice(main_content, spans[k][1], spans[k][2])
    /\ \A k \in 1..(Len(spans) - 1) :
         /\ spans[k][1] < spans[k + 1][1]
         /\ spans[k][2] = spans[k + 1][1]
    /\ spans # <<>> => spans[Len(spans)][2] = Len(main_content)

C1_ThreeSegments == SegmentsBuilt /\ Len(spans) = 3

\* C2, as stated: every offset of the content lies in exactly one segment, and
\* the segments concatenated in order are the content
C2_CoverWholeContent ==
  SegmentsBuilt =>
    /\ \A p \in 0..(Len(main_content) - 1) : SegmentsAt(p) = 1
    /\ Concat(doc_texts) = main_content

\* C2, corrected: the segments cover the content from the first act start on.
\* Every offset at or after the first act start lies in exactly one segment,
\* every offset before it lies in none, and the segments concatenated in order
\* are the content from the first act start; a content without an act start
\* has no segment
C2_CoverFromFirstStart ==
  SegmentsBuilt =>
    IF starts = <<>> THEN doc_texts = <<>>
    ELSE /\ \A p \in 0..(Len(main_content) - 1) :
              SegmentsAt(p) = IF p >= starts[1] THEN 1 ELSE 0
         /\ Concat(doc_texts) = Slice(main_content, starts[1], Len(main_content))

C2_TextBeforeFirstStart ==
  SegmentsBuilt /\ Len(starts) >= 2 /\ starts[1] > 0

--------------------------------------------------------------------------
(* Properties of parse_document and of the loop over the segments *)

\* C3: in a document whose header the full header pattern matched, every
\* article was matched at an offset at or after the end of the header match
C3_ArticlesAfterHeader ==
  \A k \in 1..Len(parses) :
    (parses[k].some /\ ~parses[k].is_individual) =>
      /\ Len(parses[k].article_starts) = Len(parses[k].doc.articles)
      /\ parses[k].header_start < parses[k].header_end
      /\ \A i \in 1..Len(parses[k].article_starts) :
           parses[k].article_starts[i] >= parses[k].header_end

C3_FullHeaderWithArticles ==
  \E k \in 1..Len(parses) :
    /\ parses[k].some /\ ~parses[k].is_individual
    /\ parses[k].doc.articles # <<>>

\* C4: no document of the output has the number "N/A", no article and a title
\* with neither "nomination" nor "mettant fin" in it, and none has the title
\* "N/A" and no article
C4_NoRejectedDocument ==
  \A k \in 1..Len(parsed_documents) :
    LET d == parsed_documents[k] IN
      /\ ~(/\ d.official_number = <<"N/A">>
           /\ d.articles = <<>>
           /\ ~(\E i \in 1..Len(d.title) : Occurs("nomination", d.title[i]))
           /\ ~ContainsSeq(d.title, <<"mettant", " ", "fin">>))
      /\ ~(d.title = <<"N/A">> /\ d.articles = <<>>)

C4_BothRejections ==
  /\ \E k \in 1..Len(outcomes) : outcomes[k] = "skipped"
  /\ \E k \in 1..Len(outcomes) :
       outcomes[k] = "no document" /\ DocumentHeaderSearch(doc_texts[k]).ok

\* C5, as stated: a segment that only the individual decision pattern matches
\* gives one document of the output, with the number "N/A", no article and a
\* title the personnel-action allowlist accepts, and that document gives one
\* chunk, the title chunk, with source_article_number "N/A"
C5_IndividualDecisionKept ==
  \A k \in 1..Len(parses) :
    (parses[k].some /\ parses[k].is_individual) =>
      /\ outcomes[k] = "appended"
      /\ parses[k].doc.official_number = <<"N/A">>
      /\ parses[k].doc.articles = <<>>
      /\ PersonnelAction(parses[k].doc.title)
      /\ LET doc_chunks == ChunkDocument(WithCategory(parses[k].doc)) IN
           /\ Len(doc_chunks) = 1
           /\ doc_chunks[1].metadata.source_article_number = <<"N/A">>

C5_IndividualDecisionSkipped ==
  \E k \in 1..Len(parses) :
    parses[k].some /\ parses[k].is_individual /\ outcomes[k] = "skipped"

\* C7: the output is the concatenation, in order, of what each segment gives
\* on its own; every segment is processed whatever the others gave, and a
\* content without an act start gives the empty list
C7_SegmentsIndependent ==
  /\ pc = "parsing" =>
       /\ Len(outcomes) = segment - 1
       /\ parsed_documents =
            Concat([k \in 1..(segment - 1) |-> SegmentResult(doc_texts[k])])
  /\ pc = "parsed" =>
       /\ Len(outcomes) = Len(doc_texts)
       /\ parsed_documents =
            Concat([k \in 1..Len(doc_texts) |-> SegmentResult(doc_texts[k])])
       /\ starts = <<>> => parsed_documents = <<>>

C7_FailureBetweenDocuments ==
  /\ pc = "parsed"
  /\ Len(outcomes) = 3
  /\ outcomes[1] = "appended" /\ outcomes[2] = "no document" /\ outcomes[3] = "appended"
  /\ Len(parsed_documents) = 2

--------------------------------------------------------------------------
(* The regular decree, end to end *)

ScenarioArticle(k) == [number |-> <<ArticleNumbers[k]>>, content |-> ArticleBody(k)]

ScenarioChunkText(k) ==
  <<"Article", " ", ArticleNumbers[k], ":", " ">> \o ArticleBody(k)

\* C6, as stated: the regular decree with K articles gives one document with
\* the cleaned type, number, date and title and K articles numbered as in the
\* text, whose content is the body; the category of a Decret is "Decree"; and
\* it gives K chunks with the text "Article <number>: <body>"
C6_RegularDecree ==
  \A sc \in Scenarios :
    (full_text = ScenarioText(sc) /\ pc = "done") =>
      /\ Len(structured_data) = 1
      /\ structured_data[1].document_type = sc.type
      /\ structured_data[1].official_number = ScenarioNumber
      /\ structured_data[1].date = ScenarioDate
      /\ structured_data[1].title = ScenarioTitle
      /\ structured_data[1].articles = [k \in 1..sc.articles |-> ScenarioArticle(k)]
      /\ sc.type[1] = "Decret" => structured_data[1].category = "Decree"
      /\ Len(all_chunks) = sc.articles
      /\ \A k \in 1..sc.articles : all_chunks[k].text = ScenarioChunkText(k)

C6_HeaderOnly ==
  /\ pc = "done"
  /\ full_text = ScenarioText([type |-> <<"Decret", " ", "executif">>,
                               opener |-> "Le President de la Republique,",
                               articles |-> 2, ellipsis |-> TRUE])
  /\ Len(structured_data) = 1
  /\ structured_data[1].articles = <<>>
  /\ Len(all_chunks) = 1

--------------------------------------------------------------------------
(* Properties of the classifier *)

KeywordOrder ==
  <<"decret", "loi", "arrete", "decision", "circulaire", "ordonnance">>

CategoryOrder == <<"Decree", "Law", "Order", "Decision", "Circular", "Ordinance">>

\* the places in KeywordOrder of the keywords that occur in the lowered type
KeywordsOccurring(document_type) ==
  {j \in 1..Len(KeywordOrder) :
     \E i \in 1..Len(document_type) : Occurs(KeywordOrder[j], Lower(document_type[i]))}

\* C8: the category of a classified document is in the vocabulary; it is the
\* category of the first keyword, in the order decret, loi, arrete, decision,
\* circulaire, ordonnance, that occurs in the lowered type, wherever in the
\* type the keywords stand, and "Uncategorized" when none occurs
C8_FirstKeywordInTableOrder ==
  \A k \in 1..Len(structured_data) :
    LET hits == KeywordsOccurring(structured_data[k].document_type) IN
      /\ structured_data[k].category \in
           {"Decree", "Law", "Order", "Decision", "Circular", "Ordinance",
            "Uncategorized"}
      /\ structured_data[k].category =
           IF hits = {} THEN "Uncategorized" ELSE CategoryOrder[Min(hits)]

C8_LaterKeywordStandsFirst ==
  /\ structured_data # <<>>
  /\ structured_data[1].document_type = <<"Loi", "DECRET">>
  /\ structured_data[1].category = "Decree"

--------------------------------------------------------------------------
(* Properties of the chunker *)

\* max(1, N) for the N articles of a document
ChunkCount(document) ==
  IF Len(document.articles) > 0 THEN Len(document.articles) ELSE 1

\* the number of chunks of the first k documents
RECURSIVE ChunksBefore(_, _)
ChunksBefore(docs, k) ==
  IF k = 0 THEN 0 ELSE ChunksBefore(docs, k - 1) + ChunkCount(docs[k])

\* C9: a document with N > 0 articles gives N chunks and one without articles
\* gives one; the chunks file of a list of documents holds the sum of
\* max(1, N) chunks, at least one for each document
C9_ChunkCardinality ==
  /\ \A k \in 1..Len(structured_data) :
       /\ Len(ChunkDocument(structured_data[k])) = ChunkCount(structured_data[k])
       /\ Len(ChunkDocument(structured_data[k])) >= 1
  /\ pc = "done" =>
       Len(all_chunks) = ChunksBefore(structured_data, Len(structured_data))

C9_WithAndWithoutArticles ==
  /\ pc = "done"
  /\ Len(structured_data) = 2
  /\ structured_data[1].articles = <<>>
  /\ Len(structured_data[2].articles) = 2
  /\ Len(all_chunks) = 3

\* what the chunk of a document must carry under the source_ keys
SourceFields(document, chunk) ==
  /\ chunk.metadata.source_document_type = document.document_type
  /\ chunk.metadata.source_official_number = document.official_number
  /\ chunk.metadata.source_date = document.date
  /\ chunk.metadata.source_category = document.category

\* C10: in the chunks file the chunks of the documents follow each other in the
\* order of the documents; the i-th chunk of a document with articles has the
\* text "Article <number>: <content>" of its i-th article and that article's
\* number; the one chunk of a document without articles has the text
\* "<document_type>: <title>" and the article number "N/A"; every chunk carries
\* the type, number, date and category of its document; and the documents are
\* as classification left them
C10_ChunksProjectDocuments ==
  pc = "done" =>
    /\ structured_data =
         [k \in 1..Len(structured_data) |-> WithCategory(parsed_documents[k])]
    /\ \A k \in 1..Len(structured_data) :
         LET d == structured_data[k]
             base == ChunksBefore(structured_data, k - 1)
         IN /\ base + ChunkCount(d) <= Len(all_chunks)
            /\ \A i \in 1..ChunkCount(d) : SourceFields(d, all_chunks[base + i])
            /\ IF d.articles = <<>>
               THEN /\ all_chunks[base + 1].text = d.document_type \o <<":", " ">> \o d.title
                    /\ all_chunks[base + 1].metadata.source_article_number = <<"N/A">>
               ELSE \A i \in 1..Len(d.articles) :
                      /\ all_chunks[base + i].text =
                           <<"Article", " ">> \o d.articles[i].number
                             \o <<":", " ">> \o d.articles[i].content
                      /\ all_chunks[base + i].metadata.source_article_number =
                           d.articles[i].number

C10_TitleChunkThenArticleChunks ==
  /\ pc = "done"
  /\ Len(structured_data) = 2
  /\ structured_data[1].articles = <<>>
  /\ structured_data[1].official_number = <<"N/A">>
  /\ Len(structured_data[2].articles) = 2
  /\ structured_data[2].articles[1] # structured_data[2].articles[2]

--------------------------------------------------------------------------
(* Properties of _clean_field *)

\* C11: _clean_field is idempotent: called on what it returned, it returns
\* the same string
C11_CleanFieldIdempotent ==
  \A k \in 2..(Len(cleanings) - 1) : cleanings[k + 1] = cleanings[k]

C11_CleanedTwice ==
  /\ Len(cleanings) = 3
  /\ cleanings[1] = <<".", "\n", "texte">>
  /\ cleanings[2] = <<"texte">>

--------------------------------------------------------------------------
(* Properties of the header fields, the log and the articles *)

\* C12, as stated: a field of a document of the output is "N/A" only when the
\* header pattern that matched did not capture it: the date and the title,
\* which both patterns capture, never are, and the number is "N/A" only in a
\* document of the individual decision pattern, which has no number group
C12_SentinelOnlyWhenNotCaptured ==
  \A k \in 1..Len(parses) :
    outcomes[k] = "appended" =>
      /\ parses[k].doc.date # <<"N/A">>
      /\ parses[k].doc.title # <<"N/A">>
      /\ parses[k].doc.official_number = <<"N/A">> => parses[k].is_individual

C12_CapturedSentinelTitle ==
  \E k \in 1..Len(parses) :
    /\ outcomes[k] = "appended"
    /\ ~parses[k].is_individual
    /\ DocumentHeaderSearch(doc_texts[k]).title = <<"N/A">>
    /\ parses[k].doc.title = <<"N/A">>
    /\ parses[k].doc.articles # <<>>

\* the places in the log of the records that open the turns of the loop
TurnRecords ==
  SelectSeq([i \in 1..Len(log) |-> i],
            LAMBDA i : log[i].event = "Parsing potential document segment")

\* the records logged in the turn of segment k, after the one that opens it
SegmentLog(k) ==
  SubSeq(log, TurnRecords[k] + 1,
         IF k < Len(TurnRecords) THEN TurnRecords[k + 1] - 1 ELSE Len(log))

\* C13, as stated: for every segment that gave no document of the output, a
\* record was logged in its turn of the loop, and for a document that the
\* filter rejected the record carries its title
C13_EveryDropLogged ==
  \A k \in 1..Len(outcomes) :
    outcomes[k] # "appended" =>
      /\ SegmentLog(k) # <<>>
      /\ outcomes[k] = "skipped" =>
           \E i \in 1..Len(SegmentLog(k)) :
             SegmentLog(k)[i].title = parses[k].doc.title

C13_SilentDrops ==
  /\ \E k \in 1..Len(outcomes) :
       /\ outcomes[k] = "no document"
       /\ ~DocumentHeaderSearch(doc_texts[k]).ok
       /\ ~IndividualDecisionSearch(doc_texts[k]).ok
       /\ SegmentLog(k) = <<>>
  /\ \E k \in 1..Len(outcomes) :
       /\ outcomes[k] = "no document"
       /\ DocumentHeaderSearch(doc_texts[k]).ok
       /\ SegmentLog(k) = <<>>

\* an article marker as the documents are written: at offset e a line break,
\* then "Art." or "Article", with or without a period, and a number
WrittenMarkerAt(t, e) ==
  /\ Tok(t, e) = "\n"
  /\ LET q == e + 1 + SpaceRun(t, e + 1)
         n == IF Tok(t, q + 1) = "." THEN q + 2 ELSE q + 1
     IN /\ \/ Tok(t, q) = "Art" /\ Tok(t, q + 1) = "."
           \/ Tok(t, q) = "Article"
        /\ StartsWithDigit(Tok(t, n + SpaceRun(t, n)))

\* the number written at the marker at offset e
WrittenNumber(t, e) ==
  LET q == e + 1 + SpaceRun(t, e + 1)
      n == IF Tok(t, q + 1) = "." THEN q + 2 ELSE q + 1
  IN <<Tok(t, n + SpaceRun(t, n))>>

\* the offsets of the article markers of t from offset `from` on, in order
WrittenMarkers(t, from) ==
  SelectSeq(Offsets(t), LAMBDA e : e >= from /\ WrittenMarkerAt(t, e))

\* C14, as stated: a document of the full header pattern has one article for
\* each article marker at or after the end of its header match, in the order
\* of the text and with the number written at the marker; so the article whose
\* marker bounded the header match is its first article
C14_EveryMarkerAnArticle ==
  \A k \in 1..Len(parses) :
    (parses[k].some /\ ~parses[k].is_individual) =>
      LET ms == WrittenMarkers(doc_texts[k], parses[k].header_end) IN
        /\ Len(parses[k].doc.articles) = Len(ms)
        /\ \A i \in 1..Len(ms) :
             parses[k].doc.articles[i].number = WrittenNumber(doc_texts[k], ms[i])

C14_BoundingArticleLost ==
  \E k \in 1..Len(parses) :
    /\ parses[k].some /\ ~parses[k].is_individual
    /\ WrittenMarkerAt(doc_texts[k], parses[k].header_end)
    /\ parses[k].doc.articles = <<>>
    /\ outcomes[k] = "appended"

--------------------------------------------------------------------------
(* Properties of the choice of the header pattern and of the validation *)

\* C15: a parsed segment is individual exactly when the full header pattern
\* matches nowhere in it, and then the individual decision pattern matches it;
\* so a segment that both patterns match is parsed by the full header
\* pattern.  The articles of a segment that is not individual are what
\* parse_articles gives on the text after the header match, and an individual
\* document has no article, whatever follows its header line
C15_FullHeaderFirst ==
  \A k \in 1..Len(parses) :
    LET full == DocumentHeaderSearch(doc_texts[k])
        individual == IndividualDecisionSearch(doc_texts[k])
    IN /\ parses[k].some =>
            /\ parses[k].is_individual <=> ~full.ok
            /\ parses[k].is_individual =>
                 /\ individual.ok
                 /\ parses[k].doc.articles = <<>>
                 /\ parses[k].article_starts = <<>>
            /\ ~parses[k].is_individual =>
                 parses[k].doc.articles =
                   ParseArticles(Slice(doc_texts[k], parses[k].header_end,
                                       Len(doc_texts[k])))
       /\ (~full.ok /\ ~individual.ok) => ~parses[k].some

C15_BothPatternsMatch ==
  \E k \in 1..Len(parses) :
    /\ DocumentHeaderSearch(doc_texts[k]).ok
    /\ IndividualDecisionSearch(doc_texts[k]).ok
    /\ parses[k].some /\ ~parses[k].is_individual
    /\ parses[k].doc.articles # <<>>

\* the two rejections: number "N/A", no article and a title with neither
\* "nomination" nor "mettant fin"; title "N/A" and no article
Rejected(number, title, articles) ==
  \/ /\ number = <<"N/A">>
     /\ articles = <<>>
     /\ ~(\E i \in 1..Len(title) : Occurs("nomination", title[i]))
     /\ ~ContainsSeq(title, <<"mettant", " ", "fin">>)
  \/ title = <<"N/A">> /\ articles = <<>>

C20_FourCategories ==
  \A k \in 1..Len(structured_data) :
    structured_data[k].category \in {"Decree", "Law", "Order", "Decision"}

C20_UncategorizedLaw ==
  \E k \in 1..Len(structured_data) :
    /\ structured_data[k].document_type = <<"Lo(dotless i)", " ", "organique">>
    /\ structured_data[k].category = "Uncategorized"

--------------------------------------------------------------------------
(* Properties of the content of the articles *)

\* what ends the content of an article: at offset x a line break, then an
\* article marker or the opener of a closing formula
TerminatorAt(t, x) ==
  \/ WrittenMarkerAt(t, x)
  \/ /\ Tok(t, x) = "\n"
     /\ Tok(t, x + 1 + SpaceRun(t, x + 1)) \in
          {"Fait a Alger", "Le ministre", "Par ces motifs"}

\* C16, as stated: the match of an article holds no terminator after its own
\* marker, it ends at a terminator unless none follows, and then it ends with
\* the text; the matches do not overlap, so the text from a closing formula to
\* the next article marker is in none
C16_ContentEndsAtTerminator ==
  \A k \in 1..Len(parses) :
    (parses[k].some /\ ~parses[k].is_individual) =>
      LET t == doc_texts[k]
          from == parses[k].article_starts
          to == parses[k].article_ends
      IN /\ \A i \in 1..Len(from) :
              /\ \A x \in (from[i] + 1)..(to[i] - 1) : ~TerminatorAt(t, x)
              /\ ~TerminatorAt(t, to[i]) =>
                   /\ to[i] >= Len(t) - 1
                   /\ \A x \in (from[i] + 1)..(Len(t) - 1) : ~TerminatorAt(t, x)
         /\ \A i \in 1..(Len(from) - 1) : to[i] <= from[i + 1]

C16_NextArticleInContent ==
  \E k \in 1..Len(parses) :
    /\ parses[k].some /\ ~parses[k].is_individual
    /\ outcomes[k] = "appended"
    /\ Len(parses[k].doc.articles) = 1
    /\ parses[k].doc.articles[1].number = <<"5">>
    /\ parses[k].doc.articles[1].content =
         <<"Art", ".", " ", "2", " ", "EMDASH", " ", "present">>
    /\ \E x \in (parses[k].article_starts[1] + 1)..(parses[k].article_ends[1] - 1) :
         WrittenMarkerAt(doc_texts[k], x)

--------------------------------------------------------------------------
(* Properties of _find_content_start and _pre_clean_gazette *)

\* the offsets of the table of contents markers of t, in any case
SommaireOffsets(t) == {p \in 0..(Len(t) - 1) : Fold(Tok(t, p)) = "sommaire"}

\* C18: the content is the normalized text after its first table of contents
\* marker, in any case, and after the " (suite)" that follows it if one does,
\* so that later markers are in the content; without a marker it is the whole
\* normalized text, the warning is logged, and the content is segmented all
\* the same
C18_ContentAfterFirstMarker ==
  pc # "start" =>
    LET t == cleaned_gazette_text IN
      /\ IF SommaireOffsets(t) = {}
         THEN main_content = t
         ELSE LET p == Min(SommaireOffsets(t))
                  after == IF Tok(t, p + 1) = " " /\ Tok(t, p + 2) = "(suite)"
                           THEN p + 3 ELSE p + 1
              IN main_content = SubSeq(t, after + 1, Len(t))
      /\ SommaireOffsets(t) = {} <=>
           \E r \in 1..Len(log) :
             log[r].level = "WARNING" /\ log[r].event = "SOMMAIRE section not found"
      /\ starts = DocumentStarts(main_content)
      /\ Len(doc_texts) = Len(starts)

C18_LaterMarkerInContent ==
  /\ pc # "start"
  /\ cleaned_gazette_text = <<"Sommaire", " ", "(suite)", "\n", "SOMMAIRE">>
  /\ main_content = <<"\n", "SOMMAIRE">>

\* C19, as stated: the text _pre_clean_gazette returned holds no page marker
C19_NoPageMarkerLeft ==
  pc # "start" => ~ContainsSeq(cleaned_gazette_text, NewPageMarker)

C19_MarkerJoined ==
  /\ pc # "start"
  /\ full_text = <<"---", " ", "NEW">> \o NewPageMarker \o <<" ", "PAGE", " ", "---">>
  /\ cleaned_gazette_text = NewPageMarker

--------------------------------------------------------------------------
(* Properties of the ingestion *)

\* the rows of the table documents with this file name
DocumentRows(file_name) ==
  {r \in 1..Len(documents) : documents[r].file_name = file_name}

\* the rows of the table chunks that belong to this document
ChunkRows(doc_id) == {r \in 1..Len(chunks) : chunks[r].document_id = doc_id}

\* C21: ingestion is idempotent: after any number of runs over the same
\* files the table documents holds exactly one row for each JSON file name,
\* and the table chunks holds, for each chunks file whose document is in the
\* table, exactly as many rows as the file has chunks
C21_IngestionIdempotent ==
  (pc = "idle" /\ runs >= 1) =>
    /\ Len(documents) = Cardinality({g \in Stems : structured_json[g] # NoFile})
    /\ \A g \in Stems :
         structured_json[g] # NoFile =>
           Cardinality(DocumentRows(<<g, ".json">>)) = 1
    /\ \A g \in Stems :
         (rag_chunks[g] # NoFile /\ structured_json[g] # NoFile) =>
           \A r \in DocumentRows(<<g, ".json">>) :
             Cardinality(ChunkRows(documents[r].id)) = Len(Content(rag_chunks[g]))

\* the second run is over: no document row was added, and every chunk of a
\* chunks file is in the table twice
C21_ChunksTwice ==
  /\ pc = "idle"
  /\ runs = 2
  /\ Len(documents) = 1
  /\ \E g \in Stems :
       /\ rag_chunks[g] # NoFile
       /\ Len(Content(rag_chunks[g])) = MaxIngestArticles
       /\ GetDocumentByFilename(documents, <<g, ".json">>) # <<>>
       /\ Len(chunks) = 2 * MaxIngestArticles
       /\ \A k \in 1..MaxIngestArticles :
            chunks[k].chunk_text = chunks[MaxIngestArticles + k].chunk_text

--------------------------------------------------------------------------
(* Properties of the pipeline *)

\* the paths run_parsing returned
Returned == {json_output_paths[k] : k \in 1..Len(json_output_paths)}

\* C22: once run_parsing has finished with force_rerun set, every JSON file
\* it returned that is on disk holds the documents parsed and classified from
\* what its text file holds now, and at the end of the run every chunks file
\* of such a path holds the chunks of those documents; without force_rerun a
\* JSON file that is there is never rewritten
C22_ForcedRerunLeavesNothingStale ==
  /\ [](\A g \in Returned :
          (force_rerun /\ structured_json[g] # NoFile) =>
            /\ pc = "chunking files" =>
                 Content(structured_json[g])
                   = ParseAndClassify(Content(processed_text[g]))
            /\ (pc = "idle" /\ rag_chunks[g] # NoFile) =>
                 Content(rag_chunks[g])
                   = ChunkAllDocuments(ParseAndClassify(Content(processed_text[g]))))
  /\ [][\A g \in Stems :
          (~force_rerun /\ structured_json[g] # NoFile) =>
            structured_json'[g] = structured_json[g]]_vars

\* a forced run has parsed a text that holds no act, and the JSON file of the
\* run before, with its document, is still there and has been chunked again
C22_StaleJsonChunked ==
  /\ pc = "idle"
  /\ force_rerun
  /\ runs = 2
  /\ \E g \in Returned :
       /\ ProcessFullGazette(Content(processed_text[g])) = <<>>
       /\ structured_json[g] # NoFile
       /\ Content(structured_json[g]) # <<>>
       /\ rag_chunks[g] = File(ChunkAllDocuments(Content(structured_json[g])))

--------------------------------------------------------------------------
(* Properties of the search *)

\* the ways to pick count vectors, one for each place of the answer
Picks(count) ==
  {pick \in [1..count -> 1..Len(vectors)] :
     \A i, j \in 1..count : i # j => pick[i] # pick[j]}

\* C23: for every query and every top_k >= 0 the answer of /search holds
\* exactly min(top_k, number of vectors) results, they are stored chunks with
\* the highest scores for the query, and their scores never go up
C23_TopKBestInOrder ==
  (request # <<>> /\ results[1].status = 200) =>
    LET q == request[1].q
        found == results[1].results
        count == IF request[1].top_k < Len(vectors)
                 THEN request[1].top_k ELSE Len(vectors)
    IN  /\ Len(found) = count
        /\ \A i \in 1..Len(found) - 1 : found[i].score >= found[i + 1].score
        /\ \E pick \in Picks(Len(found)) :
             /\ \A i \in 1..Len(found) :
                  /\ found[i].text = vectors[pick[i]].text
                  /\ found[i].metadata = vectors[pick[i]].metadata
                  /\ found[i].score = CosSim(q, vectors[pick[i]].embedding)
             /\ \A k \in 1..Len(vectors) :
                  (\A i \in 1..Len(found) : pick[i] # k) =>
                    \A i \in 1..Len(found) :
                      CosSim(q, vectors[k].embedding) <= found[i].score

\* a request with top_k = 0 was answered with every stored chunk
C23_ZeroTopKReturnsAll ==
  /\ request # <<>>
  /\ request[1].top_k = 0
  /\ results[1].status = 200
  /\ Len(vectors) = MaxVectors
  /\ Len(results[1].results) = MaxVectors

====
